---- MODULE Spec2Model ----
(***************************************************************************)
(* Client-side scripts of the hall booking system:                         *)
(*   - the capacity recommender of the room form (timetable.js) and of the *)
(*     vehicle form (headcount handler), as the "input" event handlers     *)
(*     acting on the option list, the select, the banner and the submit    *)
(*     button;                                                             *)
(*   - the booking page (booking.js): space/date change handlers and the   *)
(*     three uncancelled fetches with their response callbacks;            *)
(*   - the page with the #booking-date input (inline script): the          *)
(*     loadUnavailableDates lookup, which adds one more 'input' listener   *)
(*     to the date input with every response.                              *)
(***************************************************************************)
EXTENDS Integers, Sequences, FiniteSets, Bags, TLC

VARIABLES
    page,        \* which script is wired: "room" | "vehicle" | "booking" | "bookingDate"
    candidates,  \* the options after the placeholder: sequence of data-capacity values
    countValue,  \* the text of the count input (this.value), a sequence of characters
    ui,          \* the widgets the handler writes: select, options, banner, submit button
    prev,        \* history: ui as it was when the last input event fired
    evaluated,   \* history: an input event has been handled
    spaceValue,  \* booking page: spaceSelect.value (0 is "")
    dateValue,   \* booking page: dateInput.value (0 is "")
    slotsBox,    \* booking page: existingSlots element [hidden, html]
    facilities,  \* booking page: facilitiesContainer.innerHTML
    pending,     \* booking page: bag of fetches in flight
    listeners,   \* #booking-date page: the 'input' listeners on the date input, in
                 \* the order they were added, each by the Set it closes over
    overwrote    \* history: what the last step's response overwrote, if it was
                 \* a response for a selection that is no longer the current one

vars == <<page, candidates, countValue, ui, prev, evaluated,
          spaceValue, dateValue, slotsBox, facilities, pending, listeners,
          overwrote>>

formVars == <<page, candidates, countValue, ui, prev, evaluated>>
bookingVars == <<spaceValue, dateValue, slotsBox, facilities, pending, listeners,
                 overwrote>>

(***************************************************************************)
(* Bounds                                                                  *)
(***************************************************************************)
MaxCandidates == 3
MaxCap == 2
MaxPending == 3
MaxListeners == 3

Capacities == 0..MaxCap

RECURSIVE SeqsUpTo(_, _)
SeqsUpTo(S, n) ==
    IF n = 0 THEN {<<>>}
    ELSE LET shorter == SeqsUpTo(S, n - 1)
         IN  shorter \cup {Append(s, x) : s \in {t \in shorter : Len(t) = n - 1}, x \in S}

CandidateLists == SeqsUpTo(Capacities, MaxCandidates)

\* texts of the count input: empty, zero, small counts, a count above every
\* capacity, a negative count, blanks before a count, text, text after a
\* count, a count after text, a lone sign, a tab before a count, a
\* hexadecimal count, a hexadecimal prefix with nothing after it
InputValues ==
    {<<>>, <<"0">>, <<"1">>, <<"2">>, <<"3">>, <<"1", "0">>, <<"-", "1">>,
     <<" ", "2">>, <<"a">>, <<"1", "a">>, <<"a", "1">>, <<"-">>,
     <<"\t", "2">>, <<"0", "x", "1">>, <<"0", "x">>}

(***************************************************************************)
(* parseInt(this.value) || 0                                               *)
(***************************************************************************)
NaN == [nan |-> TRUE, n |-> 0]
Num(k) == [nan |-> FALSE, n |-> k]

IsDigit(c) == c \in {"0", "1", "2", "3", "4", "5", "6", "7", "8", "9"}

\* the digits of radix 16 above 9, in either case
IsHexLetter(c) ==
    c \in {"a", "b", "c", "d", "e", "f", "A", "B", "C", "D", "E", "F"}

DigitValue(c) ==
    CASE c = "0" -> 0 [] c = "1" -> 1 [] c = "2" -> 2 [] c = "3" -> 3
      [] c = "4" -> 4 [] c = "5" -> 5 [] c = "6" -> 6 [] c = "7" -> 7
      [] c = "8" -> 8 [] c = "9" -> 9
      [] c \in {"a", "A"} -> 10 [] c \in {"b", "B"} -> 11
      [] c \in {"c", "C"} -> 12 [] c \in {"d", "D"} -> 13
      [] c \in {"e", "E"} -> 14 [] c \in {"f", "F"} -> 15

\* the white space and line terminators parseInt strips from the front:
\* space, tab, line feed, form feed, carriage return, vertical tab (U+000B),
\* no-break space (U+00A0), ogham space mark (U+1680), byte order mark
\* (U+FEFF).  parseInt strips U+2000..U+200A, U+2028, U+2029, U+202F, U+205F
\* and U+3000 as well; a string of this module cannot hold those characters.
IsWhiteSpace(c) ==
    c \in {" ", "\t", "\n", "\f", "\r", "", " ", " ", "﻿"}

RECURSIVE SkipWhite(_)
SkipWhite(s) ==
    IF s # <<>> /\ IsWhiteSpace(Head(s)) THEN SkipWhite(Tail(s)) ELSE s

IsDigitOf(c, radix) == IsDigit(c) \/ (radix = 16 /\ IsHexLetter(c))

\* the longest run of digits of the radix at the front of s, accumulated in
\* that radix; seen records whether at least one digit was read
RECURSIVE ReadDigits(_, _, _, _)
ReadDigits(s, radix, acc, seen) ==
    IF s # <<>> /\ IsDigitOf(Head(s), radix)
    THEN ReadDigits(Tail(s), radix, acc * radix + DigitValue(Head(s)), TRUE)
    ELSE [seen |-> seen, n |-> acc]

\* the text starts with 0x or 0X
HasHexPrefix(s) == Len(s) >= 2 /\ s[1] = "0" /\ s[2] \in {"x", "X"}

\* parseInt(string), no radix given: leading white space, an optional sign,
\* an optional 0x/0X prefix that makes the radix 16 (10 otherwise), then the
\* digits of the radix up to the first character that is not one; NaN when
\* no digit is read
ParseInt(s) ==
    LET t      == SkipWhite(s)
        neg    == t # <<>> /\ Head(t) = "-"
        body   == IF t # <<>> /\ Head(t) \in {"-", "+"} THEN Tail(t) ELSE t
        radix  == IF HasHexPrefix(body) THEN 16 ELSE 10
        digits == IF radix = 16 THEN SubSeq(body, 3, Len(body)) ELSE body
        r      == ReadDigits(digits, radix, 0, FALSE)
    IN  IF ~r.seen THEN NaN
        ELSE Num(IF neg THEN 0 - r.n ELSE r.n)

OrOne(p) == IF p.nan \/ p.n = 0 THEN 1 ELSE p.n

\* x || 0 : NaN and 0 are falsy
OrZero(p) == IF p.nan \/ p.n = 0 THEN 0 ELSE p.n

RequiredOf(s) == OrZero(ParseInt(s))

(***************************************************************************)
(* The option scan shared by the room and the vehicle handler              *)
(***************************************************************************)
\* suggestionText.className = "form-text fw-bold mt-2"
BannerReset == {"form-text", "fw-bold", "mt-2"}

InitialUI(caps, v) ==
    [value          |-> v,
     disabled       |-> [i \in 1..Len(caps) |-> FALSE],
     label          |-> [i \in 1..Len(caps) |-> "rendered"],
     display        |-> "none",
     className      |-> {"rendered"},
     html           |-> [kind |-> "rendered"],
     submitDisabled |-> FALSE,
     submitText     |-> "Submit Request",
     submitClass    |-> {"btn-google"}]

\* the loop's locals before the first option: bestFitOption = null,
\* smallestDifference = Infinity, validBusFound = false
ScanStart(u) ==
    [disabled |-> u.disabled, label |-> u.label,
     best |-> 0, inf |-> TRUE, sd |-> 0, valid |-> FALSE]

TooSmallOrEqual(cap, req) == cap <= req

\* capacity < requiredSeats  (vehicle form: count > cap)
TooSmall(cap, req) == cap < req

FirstFitOnly(diff, acc) == acc.inf

ImprovesOrTies(diff, acc) == acc.inf \/ diff <= acc.sd

\* diff < smallestDifference, smallestDifference being Infinity until a fit is seen
Improves(diff, acc) == acc.inf \/ diff < acc.sd

\* one call of the forEach callback on option i (the placeholder is skipped
\* by the callback's first line and is not part of caps)
ScanOption(acc, i, cap, req) ==
    IF TooSmall(cap, req)
    THEN [acc EXCEPT !.disabled[i] = TRUE, !.label[i] = "tooSmall"]
    ELSE LET fits == [acc EXCEPT !.disabled[i] = FALSE, !.label[i] = "fits",
                                 !.valid = TRUE]
             diff == cap - req
         IN  IF Improves(diff, acc)
             THEN [fits EXCEPT !.sd = diff, !.inf = FALSE, !.best = i]
             ELSE fits

\* options.forEach(...) in document order, from option i on
RECURSIVE Scan(_, _, _, _)
Scan(acc, i, caps, req) ==
    IF i > Len(caps) THEN acc
    ELSE Scan(ScanOption(acc, i, caps[i], req), i + 1, caps, req)

(***************************************************************************)
(* Room form: countInput 'input' handler                                   *)
(***************************************************************************)
\* if (bestFitOption) { ... } : select it and show the recommendation
RoomBestFit(u, best) ==
    [u EXCEPT !.value = best,
              !.display = "block",
              !.html = [kind |-> "best", name |-> best]]

RoomNoFitKeepsSelection(u, req) ==
    [u EXCEPT !.display = "block",
              !.className = {"form-text", "text-danger", "fw-bold", "mt-2"},
              !.html = [kind |-> "nofit", count |-> req]]

\* else if (requiredSeats > 0) { ... } : clear the selection, show the diagnostic
RoomNoFit(u, req) ==
    [u EXCEPT !.value = 0,
              !.display = "block",
              !.className = {"form-text", "text-danger", "fw-bold", "mt-2"},
              !.html = [kind |-> "nofit", count |-> req]]

\* the handler's body after requiredSeats has been read
RoomEvaluate(u, caps, req) ==
    LET acc    == Scan(ScanStart(u), 1, caps, req)
        marked == [u EXCEPT !.display = "none",
                            !.disabled = acc.disabled, !.label = acc.label]
    IN  IF acc.best # 0 THEN RoomBestFit(marked, acc.best)
        ELSE IF req > 0 THEN RoomNoFit(marked, req)
        ELSE marked

RoomHandler(u, caps, s) == RoomEvaluate(u, caps, RequiredOf(s))

(***************************************************************************)
(* Vehicle form: headcountInput 'input' handler                            *)
(***************************************************************************)
\* if (count > 0 && !validBusFound) { ... } : block the booking
VehicleNoFit(u, count) ==
    [u EXCEPT !.value = 0,
              !.submitDisabled = TRUE,
              !.submitText = "Cannot Book: Too many passengers",
              !.submitClass = (@ \cup {"btn-secondary"}) \ {"btn-google"},
              !.display = "block",
              !.className = @ \cup {"text-danger"},
              !.html = [kind |-> "nofit", count |-> count]]

\* else if (bestFit) { ... } : auto-select and allow
VehicleBestFit(u, best, count) ==
    [u EXCEPT !.value = best,
              !.submitDisabled = FALSE,
              !.submitText = "Submit Request",
              !.submitClass = (@ \ {"btn-secondary"}) \cup {"btn-google"},
              !.display = "block",
              !.className = @ \cup {"text-success"},
              !.html = [kind |-> "best", name |-> best, count |-> count]]

\* the handler's body after count has been read
VehicleEvaluate(u, caps, count) ==
    LET acc    == Scan(ScanStart(u), 1, caps, count)
        marked == [u EXCEPT !.display = "none",
                            !.className = BannerReset,
                            !.disabled = acc.disabled, !.label = acc.label]
    IN  IF count > 0 /\ ~acc.valid THEN VehicleNoFit(marked, count)
        ELSE IF acc.best # 0 THEN VehicleBestFit(marked, acc.best, count)
        ELSE marked

VehicleHandler(u, caps, s) == VehicleEvaluate(u, caps, RequiredOf(s))

Evaluate(pg, u, caps, req) ==
    IF pg = "vehicle" THEN VehicleEvaluate(u, caps, req) ELSE RoomEvaluate(u, caps, req)

(***************************************************************************)
(* Booking page: DOM state, fetches in flight, backend                     *)
(***************************************************************************)
\* the space options and the dates a user can pick, by number; 0 stands for ""
Spaces == {1, 2}
Dates == {1, 2}

\* /api/unavailable-dates/?space_id=s : the dates blocked for space s
BlockedDates(s) == IF s % 2 = 1 THEN {d \in Dates : d = 1} ELSE {}

Rendered == [kind |-> "rendered"]

FacilitiesRequest(s) == [kind |-> "facilities", space |-> s, date |-> 0, chain |-> FALSE]
UnavailableRequest(s, chain) == [kind |-> "unavailable", space |-> s, date |-> 0, chain |-> chain]
SlotsRequest(s, d) == [kind |-> "slots", space |-> s, date |-> d, chain |-> FALSE]

\* innerHTML built from the data of a response, named by what was asked for
SlotsHtml(s, d) == [kind |-> "slots", space |-> s, date |-> d]
FacilitiesHtml(s) == [kind |-> "list", space |-> s]

Fetch(b, r) == [b EXCEPT !.pending = @ (+) SetToBag({r})]

\* the DOM fields and the fetches in flight, as one value the functions
\* of the script take and return
Dom ==
    [space |-> spaceValue, date |-> dateValue, slotsBox |-> slotsBox,
     facilities |-> facilities, pending |-> pending]

HideSlots(b) == [b EXCEPT !.slotsBox.hidden = TRUE]

\* loadFacilities(), up to the fetch
LoadFacilities(b) ==
    IF b.space = 0
    THEN [b EXCEPT !.facilities = [kind |-> "prompt"]]
    ELSE Fetch(b, FacilitiesRequest(b.space))

\* checkUnavailableDates(), up to the first await; chain tells whether the
\* caller continues with loadSlots() when the promise resolves to true
CheckUnavailableDates(b, chain) ==
    IF b.space = 0
    THEN b
    ELSE Fetch(b, UnavailableRequest(b.space, chain))

\* loadSlots(), up to the fetch
LoadSlots(b) ==
    IF b.space = 0 \/ b.date = 0
    THEN HideSlots(b)
    ELSE Fetch(b, SlotsRequest(b.space, b.date))

OnSpaceChangeNoCheck(b) == LoadSlots(LoadFacilities(b))

\* the listeners' bodies
OnSpaceChange(b) == LoadSlots(CheckUnavailableDates(LoadFacilities(b), FALSE))

OnDateChangeEager(b) == LoadSlots(CheckUnavailableDates(b, FALSE))

OnDateChange(b) ==
    IF b.space = 0
    THEN LoadSlots(b)      \* the promise is already resolved to true
    ELSE CheckUnavailableDates(b, TRUE)

\* the auto-trigger at the end of the DOMContentLoaded listener
OnLoad(b) ==
    IF b.space = 0 THEN b
    ELSE LET checked == CheckUnavailableDates(LoadFacilities(b), FALSE)
         IN  IF b.date # 0 THEN LoadSlots(checked) ELSE checked

SlotsIgnoreStale(b, r, outcome) ==
    IF r.space # b.space \/ r.date # b.date THEN b
    ELSE CASE outcome = "list"    -> [b EXCEPT !.slotsBox =
                                        [hidden |-> FALSE,
                                         html |-> SlotsHtml(r.space, r.date)]]
           [] outcome = "empty"   -> HideSlots(b)
           [] outcome = "notlist" -> [b EXCEPT !.slotsBox.hidden = FALSE]
           [] OTHER               -> b

\* the .then(data => ...) of loadSlots for the response to r; outcomes:
\*   "list"    a non-empty array, "empty" an empty array,
\*   "notlist" a JSON value that is no array (no length, no map),
\*   "error"   the fetch or r.json() rejected
SlotsResponse(b, r, outcome) ==
    CASE outcome = "list"    -> [b EXCEPT !.slotsBox =
                                   [hidden |-> FALSE,
                                    html |-> SlotsHtml(r.space, r.date)]]
      [] outcome = "empty"   -> HideSlots(b)
      [] outcome = "notlist" -> [b EXCEPT !.slotsBox.hidden = FALSE]
      [] OTHER               -> b

\* the .then(data => ...) of loadFacilities for the response to r
FacilitiesResponse(b, r, outcome) ==
    CASE outcome = "list"  -> [b EXCEPT !.facilities = FacilitiesHtml(r.space)]
      [] outcome = "empty" -> [b EXCEPT !.facilities = [kind |-> "none"]]
      [] OTHER             -> b

\* the date the response to r finds blocked: read from dateInput when the
\* response is handled
DateIsBlocked(b, r, outcome) ==
    outcome = "list" /\ b.date # 0 /\ b.date \in BlockedDates(r.space)

\* checkUnavailableDates() after the awaits, and the caller's .then;
\* outcomes: "list" the array of blocked dates, "notok" a response that is
\* not ok, "error" a rejected fetch or body
UnavailableResponse(b, r, outcome) ==
    IF DateIsBlocked(b, r, outcome)
    THEN HideSlots([b EXCEPT !.date = 0])
    ELSE IF r.chain THEN LoadSlots(b) ELSE b

Response(b, r, outcome) ==
    CASE r.kind = "slots"      -> SlotsResponse(b, r, outcome)
      [] r.kind = "facilities" -> FacilitiesResponse(b, r, outcome)
      [] OTHER                 -> UnavailableResponse(b, r, outcome)

Outcomes(r) ==
    IF r.kind = "slots" THEN {"list", "empty", "notlist", "error"}
    ELSE IF r.kind = "facilities" THEN {"list", "empty", "error"}
    ELSE {"list", "notok", "error"}

BookingAtRest ==
    /\ spaceValue = 0
    /\ dateValue = 0
    /\ slotsBox = [hidden |-> TRUE, html |-> Rendered]
    /\ facilities = Rendered
    /\ pending = EmptyBag
    /\ listeners = <<>>
    /\ overwrote = "none"

FormAtRest ==
    /\ candidates = <<>>
    /\ countValue = <<>>
    /\ ui = InitialUI(<<>>, 0)
    /\ prev = ui
    /\ evaluated = FALSE

SetDom(b) ==
    /\ spaceValue' = b.space
    /\ dateValue' = b.date
    /\ slotsBox' = b.slotsBox
    /\ facilities' = b.facilities
    /\ pending' = b.pending

\* the page as rendered with space s and date d preselected, after the
\* DOMContentLoaded listener has run
InitBooking ==
    /\ page = "booking"
    /\ FormAtRest
    /\ listeners = <<>>
    /\ overwrote = "none"
    /\ \E s \in {0} \cup Spaces, d \in {0} \cup Dates :
          LET b == OnLoad([space |-> s, date |-> d,
                           slotsBox |-> [hidden |-> TRUE, html |-> Rendered],
                           facilities |-> Rendered, pending |-> EmptyBag])
          IN  /\ spaceValue = b.space
              /\ dateValue = b.date
              /\ slotsBox = b.slotsBox
              /\ facilities = b.facilities
              /\ pending = b.pending

SpaceChange(s) ==
    /\ page = "booking"
    /\ s # spaceValue
    /\ LET b == OnSpaceChange([Dom EXCEPT !.space = s])
       IN  /\ BagCardinality(b.pending) <= MaxPending
           /\ SetDom(b)
    /\ overwrote' = "none"
    /\ UNCHANGED <<formVars, listeners>>

DateChange(d) ==
    /\ page = "booking"
    /\ d # dateValue
    /\ LET b == OnDateChange([Dom EXCEPT !.date = d])
       IN  /\ BagCardinality(b.pending) <= MaxPending
           /\ SetDom(b)
    /\ overwrote' = "none"
    /\ UNCHANGED <<formVars, listeners>>

\* the display held the data of the current selection and the response to r,
\* asked for another selection, replaced it
Overwrites(b, r, outcome) ==
    IF /\ r.kind = "slots" /\ outcome = "list"
       /\ ~b.slotsBox.hidden /\ b.slotsBox.html = SlotsHtml(b.space, b.date)
       /\ (r.space # b.space \/ r.date # b.date)
    THEN "slots"
    ELSE IF /\ r.kind = "facilities" /\ outcome = "list"
            /\ b.facilities = FacilitiesHtml(b.space)
            /\ r.space # b.space
    THEN "facilities"
    ELSE IF r.kind = "unavailable" /\ DateIsBlocked(b, r, outcome)
    THEN (IF r.chain THEN "dateOnChange" ELSE "date")   \* the date input was cleared
    ELSE "none"

Deliver(r, outcome) ==
    /\ BagIn(r, pending)
    /\ outcome \in Outcomes(r)
    /\ SetDom(Response([Dom EXCEPT !.pending = @ (-) SetToBag({r})], r, outcome))
    /\ overwrote' = Overwrites(Dom, r, outcome)
    /\ UNCHANGED <<formVars, listeners>>

Requests ==
    {FacilitiesRequest(s) : s \in Spaces}
        \cup {UnavailableRequest(s, c) : s \in Spaces, c \in BOOLEAN}
        \cup {SlotsRequest(s, d) : s \in Spaces, d \in Dates}

(***************************************************************************)
(* The page with the #booking-date input: loadUnavailableDates             *)
(***************************************************************************)
UnavailableDatesRequest(s) ==
    [kind |-> "unavailableDates", space |-> s, date |-> 0, chain |-> FALSE]

\* loadUnavailableDates(), up to the first await
LoadUnavailableDates(b) ==
    IF b.space = 0
    THEN b
    ELSE Fetch(b, UnavailableDatesRequest(b.space))

\* loadUnavailableDates() after the awaits, for the response to r; outcomes:
\*   "list"  the array of dates: one more 'input' listener is added to the
\*           date input, closing over the Set built from this response,
\*   "notok" a response that is not ok, "error" a rejected fetch or body
AddInputListener(ls, r, outcome) ==
    IF outcome = "list" THEN Append(ls, BlockedDates(r.space)) ELSE ls

\* an 'input' event on the date input holding d: the listeners run in the
\* order they were added, each clearing the input (with the alert) when its
\* Set has the value the input holds by then
RECURSIVE RunInputListeners(_, _, _)
RunInputListeners(ls, i, d) ==
    IF i > Len(ls) THEN d
    ELSE RunInputListeners(ls, i + 1, IF d \in ls[i] THEN 0 ELSE d)

\* the page as rendered with space s and date d preselected, after the
\* DOMContentLoaded listener has called loadUnavailableDates()
InitBookingDate ==
    /\ page = "bookingDate"
    /\ FormAtRest
    /\ listeners = <<>>
    /\ overwrote = "none"
    /\ slotsBox = [hidden |-> TRUE, html |-> Rendered]
    /\ facilities = Rendered
    /\ \E s \in {0} \cup Spaces, d \in {0} \cup Dates :
          LET b == LoadUnavailableDates(
                       [space |-> s, date |-> d,
                        slotsBox |-> [hidden |-> TRUE, html |-> Rendered],
                        facilities |-> Rendered, pending |-> EmptyBag])
          IN  /\ spaceValue = b.space
              /\ dateValue = b.date
              /\ pending = b.pending

\* 'change' on select[name='space_id']
SpaceSelectChange(s) ==
    /\ page = "bookingDate"
    /\ s # spaceValue
    /\ LET b == LoadUnavailableDates([Dom EXCEPT !.space = s])
       IN  /\ BagCardinality(b.pending) + Len(listeners) <= MaxListeners
           /\ SetDom(b)
    /\ overwrote' = "none"
    /\ UNCHANGED <<formVars, listeners>>

\* the user sets the date input to d: 'input' fires on #booking-date
DateInput(d) ==
    /\ page = "bookingDate"
    /\ d # dateValue
    /\ dateValue' = RunInputListeners(listeners, 1, d)
    /\ overwrote' = (IF dateValue' # d THEN "dateOnInput" ELSE "none")
    /\ UNCHANGED <<formVars, spaceValue, slotsBox, facilities, pending, listeners>>

DeliverUnavailableDates(r, outcome) ==
    /\ page = "bookingDate"
    /\ BagIn(r, pending)
    /\ pending' = pending (-) SetToBag({r})
    /\ listeners' = AddInputListener(listeners, r, outcome)
    /\ overwrote' = "none"
    /\ UNCHANGED <<formVars, spaceValue, dateValue, slotsBox, facilities>>

(***************************************************************************)
(* The pages with a date input as a state machine                          *)
(***************************************************************************)
InitBookingPages == InitBooking \/ InitBookingDate

NextBooking ==
    \/ \E s \in {0} \cup Spaces : SpaceChange(s)
    \/ \E d \in {0} \cup Dates : DateChange(d)
    \/ \E r \in Requests : \E o \in {"list", "empty", "notlist", "notok", "error"} : Deliver(r, o)
    \/ \E s \in {0} \cup Spaces : SpaceSelectChange(s)
    \/ \E d \in {0} \cup Dates : DateInput(d)
    \/ \E s \in Spaces : \E o \in {"list", "notok", "error"} :
          DeliverUnavailableDates(UnavailableDatesRequest(s), o)

SpecBooking == InitBookingPages /\ [][NextBooking]_vars

\* the booking.js page with a backend whose blocked-date lookup always succeeds
DeliverChecked(r, outcome) ==
    /\ r.kind = "unavailable" => outcome = "list"
    /\ Deliver(r, outcome)

NextChecksSucceed ==
    \/ \E s \in {0} \cup Spaces : SpaceChange(s)
    \/ \E d \in {0} \cup Dates : DateChange(d)
    \/ \E r \in Requests : \E o \in {"list", "empty", "notlist", "error"} : DeliverChecked(r, o)

SpecChecksSucceed == InitBooking /\ [][NextChecksSucceed]_vars

(***************************************************************************)
(* The form pages as a state machine                                       *)
(***************************************************************************)
Init ==
    /\ page \in {"room", "vehicle"}
    /\ candidates \in CandidateLists
    /\ countValue = <<>>
    /\ \E v \in 0..Len(candidates) : ui = InitialUI(candidates, v)
    /\ prev = ui
    /\ evaluated = FALSE
    /\ BookingAtRest

RoomInput(s) ==
    /\ page = "room"
    /\ countValue' = s
    /\ prev' = ui
    /\ ui' = RoomHandler(ui, candidates, s)
    /\ evaluated' = TRUE
    /\ UNCHANGED <<page, candidates>>
    /\ UNCHANGED bookingVars

VehicleInput(s) ==
    /\ page = "vehicle"
    /\ countValue' = s
    /\ prev' = ui
    /\ ui' = VehicleHandler(ui, candidates, s)
    /\ evaluated' = TRUE
    /\ UNCHANGED <<page, candidates>>
    /\ UNCHANGED bookingVars

Next ==
    \/ \E s \in InputValues : RoomInput(s)
    \/ \E s \in InputValues : VehicleInput(s)

Spec == Init /\ [][Next]_vars

(***************************************************************************)
(* Vocabulary of the capacity claims                                       *)
(***************************************************************************)
Required == RequiredOf(countValue)
Options == 1..Len(candidates)
Eligible(i) == candidates[i] >= Required
Surplus(i) == candidates[i] - Required
EligibleSet == {i \in Options : Eligible(i)}
MinSurplusSet == {i \in EligibleSet : \A j \in EligibleSet : Surplus(i) <= Surplus(j)}
NoFit == Required > 0 /\ EligibleSet = {}

\* C1: when some candidate has capacity >= requiredCount > 0, the evaluation
\* ends with an eligible candidate of minimal surplus selected, and the
\* banner is shown with the positive recommendation naming that candidate.
C1_BestFitSelected ==
    (evaluated /\ Required > 0 /\ EligibleSet # {}) =>
        /\ ui.value \in EligibleSet
        /\ \A j \in EligibleSet : Surplus(ui.value) <= Surplus(j)
        /\ ui.display = "block"
        /\ ui.html.kind = "best"
        /\ ui.html.name = ui.value

\* reached: the winner is not the first eligible candidate, an earlier
\* eligible one has a strictly larger surplus and another one is too small
C1_Witness ==
    /\ evaluated /\ Required > 0
    /\ ui.value \in EligibleSet
    /\ \E j \in EligibleSet : j < ui.value /\ Surplus(j) > Surplus(ui.value)
    /\ \E k \in Options : ~Eligible(k)

\* C2: among the eligible candidates sharing the minimum surplus, the one
\* listed first is selected; a later one with equal surplus never replaces it.
C2_TieKeepsFirst ==
    (evaluated /\ Required > 0 /\ EligibleSet # {}) =>
        /\ ui.value \in MinSurplusSet
        /\ \A j \in MinSurplusSet : ui.value <= j

\* reached: two candidates tie on the minimum surplus and the first is selected
C2_Witness ==
    /\ evaluated /\ Required > 0
    /\ Cardinality(MinSurplusSet) >= 2
    /\ ui.value \in MinSurplusSet
    /\ \E j \in MinSurplusSet : j > ui.value

\* C3: when every candidate has capacity < requiredCount and requiredCount > 0,
\* the selection is the empty placeholder and the diagnostic naming the
\* required count is on display.
C3_NoFitClears ==
    (evaluated /\ Required > 0 /\ \A i \in Options : candidates[i] < Required) =>
        /\ ui.value = 0
        /\ ui.display = "block"
        /\ ui.html = [kind |-> "nofit", count |-> Required]

\* reached: a candidate was selected and a NoFit evaluation cleared it
C3_Witness ==
    /\ evaluated /\ NoFit
    /\ Options # {}
    /\ prev.value # 0
    /\ ui.value = 0

\* C4: with requiredCount = 0 no recommendation is attempted: the banner
\* stays hidden and the handler leaves the selection as it was.
C4_ZeroIsEmpty ==
    (evaluated /\ Required = 0) =>
        /\ ui.display = "none"
        /\ ui.value = prev.value

\* C5: after every evaluation a candidate is disabled exactly when its
\* capacity is below the current requiredCount.
C5_DisabledIffTooSmall ==
    evaluated => \A i \in Options : ui.disabled[i] <=> (candidates[i] < Required)

\* reached: a candidate disabled by the earlier, larger count is enabled
\* again while another one stays disabled
C5_Witness ==
    /\ evaluated /\ Required > 0
    /\ \E i \in Options : prev.disabled[i] /\ ~ui.disabled[i]
    /\ \E k \in Options : ui.disabled[k]

\* what C6 lists: the flags and labels of the candidates, the selection, the banner
Outcome(u) ==
    [disabled |-> u.disabled, label |-> u.label, value |-> u.value,
     display |-> u.display, className |-> u.className, html |-> u.html]

\* C6: the state after an evaluation is the one a single evaluation with the
\* same requiredCount over the same candidates produces on the freshly
\* loaded page, whatever evaluations came before.
C6_HistoryFree ==
    evaluated =>
        Outcome(ui) = Outcome(Evaluate(page, InitialUI(candidates, 0), candidates, Required))

\* C7: vehicle form: after every headcount input the submit button is
\* disabled and relabelled exactly when the result is NoFit.
C7_SubmitGate ==
    (page = "vehicle" /\ evaluated /\ Required >= 0) =>
        IF NoFit
        THEN ui.submitDisabled /\ ui.submitText = "Cannot Book: Too many passengers"
        ELSE ~ui.submitDisabled /\ ui.submitText = "Submit Request"

\* C8: with no candidates, requiredCount > 0 gives NoFit (selection cleared,
\* diagnostic shown, submission blocked where gated) and requiredCount = 0
\* gives Empty (banner hidden, submission enabled where gated).
C8_EmptyList ==
    (evaluated /\ Options = {}) =>
        /\ Required > 0 =>
              /\ ui.value = 0
              /\ ui.display = "block"
              /\ ui.html = [kind |-> "nofit", count |-> Required]
              /\ page = "vehicle" => ui.submitDisabled
        /\ Required = 0 =>
              /\ ui.display = "none"
              /\ page = "vehicle" => ~ui.submitDisabled

AllDigits(s) == s # <<>> /\ \A i \in 1..Len(s) : IsDigit(s[i])

\* the text is a decimal integer: an optional sign and digits, nothing else
IsNumeric(s) ==
    LET t == SkipWhite(s)
    IN  \/ AllDigits(t)
        \/ t # <<>> /\ Head(t) \in {"-", "+"} /\ AllDigits(Tail(t))

\* the text does not start (after leading blanks and an optional sign) with a digit
NoLeadingNumber(s) ==
    LET t    == SkipWhite(s)
        body == IF t # <<>> /\ Head(t) \in {"-", "+"} THEN Tail(t) ELSE t
    IN  body = <<>> \/ ~IsDigit(Head(body))

\* C9 as stated: every input that is missing or not a number leaves the state
\* an evaluation with requiredCount = 0 would have left.
C9_NonNumericIsZero ==
    (evaluated /\ ~IsNumeric(countValue)) =>
        ui = Evaluate(page, prev, candidates, 0)

\* C9 amended: an input that is missing or has no leading number leaves the
\* state an evaluation with requiredCount = 0 would have left.
C9_NoLeadingNumberIsZero ==
    (evaluated /\ NoLeadingNumber(countValue)) =>
        ui = Evaluate(page, prev, candidates, 0)

\* reached: text without a leading number was typed over a state in which a
\* candidate was disabled, and the evaluation re-enabled it as for 0
C9_Witness ==
    /\ evaluated
    /\ countValue # <<>> /\ NoLeadingNumber(countValue)
    /\ \E i \in Options : prev.disabled[i] /\ ~ui.disabled[i]

(***************************************************************************)
(* Claims about the booking page                                           *)
(***************************************************************************)
\* C10: lookups are never cancelled by a space/date change, and a response
\* with data is written to the display whatever the selection has become
\* since the request was issued.
C10_NeverCancelledNeverFiltered ==
    [][ /\ ((\E s \in {0} \cup Spaces : SpaceChange(s)) \/ (\E d \in {0} \cup Dates : DateChange(d)))
            => (pending \sqsubseteq pending')
        /\ \A r \in Requests :
              /\ (r.kind = "slots" /\ Deliver(r, "list"))
                    => slotsBox' = [hidden |-> FALSE, html |-> SlotsHtml(r.space, r.date)]
              /\ (r.kind = "facilities" /\ Deliver(r, "list"))
                    => facilities' = FacilitiesHtml(r.space)
      ]_vars

\* reached: the slots of the selected space and date were on display, the
\* late response to an earlier request replaced them, and nothing is pending
C10_Witness ==
    /\ pending = EmptyBag
    /\ overwrote = "slots"
    /\ spaceValue # 0 /\ dateValue # 0
    /\ ~slotsBox.hidden
    /\ slotsBox.html.kind = "slots"
    /\ slotsBox.html # SlotsHtml(spaceValue, dateValue)

\* the DOM fields and the fetches in flight after the step
DomAfter ==
    [space |-> spaceValue', date |-> dateValue', slotsBox |-> slotsBox',
     facilities |-> facilities', pending |-> pending']

Taken(r) == [Dom EXCEPT !.pending = @ (-) SetToBag({r})]

\* C11: a failed lookup leaves no trace: a failed slot or facility lookup
\* leaves the slots box and the facility list as they were; a failed
\* blocked-date lookup leaves the date input as it was, raises no alert and
\* counts as valid, so the slot lookup of a date change proceeds.
C11_FailuresLeaveNoTrace ==
    [][ \A r \in Requests : \A o \in {"error", "notok", "notlist"} :
          Deliver(r, o) =>
            /\ r.kind \in {"slots", "facilities"} =>
                  slotsBox' = slotsBox /\ facilities' = facilities
            /\ r.kind = "unavailable" =>
                  /\ dateValue' = dateValue
                  /\ ~DateIsBlocked(Dom, r, o)
                  /\ DomAfter = (IF r.chain THEN LoadSlots(Taken(r)) ELSE Taken(r))
      ]_vars

SlotLookups(bag) == {q \in BagToSet(bag) : q.kind = "slots"}

\* C12: a date change issues no slot lookup itself; the slot lookup comes
\* with the response to the blocked-date lookup of that event, and when that
\* response finds the date blocked the date input is cleared, the slots box
\* is hidden and no slot lookup is issued.
C12_SlotsAfterDateCheck ==
    [][ /\ (\E d \in {0} \cup Dates : DateChange(d)) =>
              \A q \in Requests :
                  q.kind = "slots" => CopiesIn(q, pending') = CopiesIn(q, pending)
        /\ \A r \in Requests : \A o \in Outcomes(r) :
              (r.kind = "unavailable" /\ r.chain /\ Deliver(r, o)) =>
                  IF DateIsBlocked(Dom, r, o)
                  THEN /\ dateValue' = 0
                       /\ slotsBox'.hidden
                       /\ pending' = pending (-) SetToBag({r})
                  ELSE DomAfter = LoadSlots(Taken(r))
      ]_vars

\* reached: the check of a date change found the date blocked: the date is
\* cleared, the box hidden and no lookup is in flight
C12_Witness ==
    /\ overwrote = "dateOnChange"
    /\ spaceValue # 0
    /\ dateValue = 0
    /\ slotsBox.hidden
    /\ pending = EmptyBag

\* C13: on the booking.js page, when every blocked-date lookup succeeds, a
\* state with no lookup pending never has a date in the date input that is
\* blocked for the selected space.
C13_NoBlockedDateAtRest ==
    (pending = EmptyBag /\ spaceValue # 0 /\ dateValue # 0) =>
        dateValue \notin BlockedDates(spaceValue)

\* reached: the check started by a space change removed the date that is
\* blocked for the newly selected space, and nothing is pending
C13_Witness ==
    /\ overwrote = "date"
    /\ pending = EmptyBag
    /\ spaceValue # 0
    /\ BlockedDates(spaceValue) # {}
    /\ dateValue = 0

\* C14: the date input is cleared with the alert only when the date it holds
\* is blocked for the space selected at that moment, be it by the response
\* handler of checkUnavailableDates or by an 'input' listener of
\* loadUnavailableDates.
C14_RejectedOnlyIfBlockedNow ==
    [][ /\ \A r \in Requests : \A o \in Outcomes(r) :
              (r.kind = "unavailable" /\ Deliver(r, o) /\ DateIsBlocked(Dom, r, o)) =>
                  dateValue \in BlockedDates(spaceValue)
        /\ \A d \in Dates :
              (DateInput(d) /\ dateValue' # d) => d \in BlockedDates(spaceValue)
      ]_vars

\* C15: with no lookup pending, the booked-slots box is visible only if a
\* space and a date are both selected.
C15_SlotsNeedSelection ==
    (pending = EmptyBag /\ ~slotsBox.hidden) => (spaceValue # 0 /\ dateValue # 0)

(***************************************************************************)
(* Claim about the selection of the capacity forms                         *)
(***************************************************************************)
\* C16: after every evaluation the selection is the empty placeholder or a
\* candidate that is enabled, its capacity being at least requiredCount.
C16_SelectionEnabled ==
    evaluated =>
        \/ ui.value = 0
        \/ /\ ui.value \in Options
           /\ ~ui.disabled[ui.value]
           /\ candidates[ui.value] >= Required

\* reached: the candidate selected before the input is now too small and
\* disabled, and the selection has moved to an enabled one
C16_Witness ==
    /\ evaluated
    /\ prev.value \in Options
    /\ ui.disabled[prev.value]
    /\ ui.value \in Options
    /\ ui.value # prev.value
    /\ ~ui.disabled[ui.value]

====
